---- MODULE Spec2Model ----
(***************************************************************************)
(* Model of src/wiki_sync.py: the wiki -> Zotero citation sync.             *)
(*                                                                         *)
(* Text is modelled at the character level: a Python str is a sequence of  *)
(* one-character strings, so that substring containment, truncation,       *)
(* case folding and the regular expressions are computed, not assumed.     *)
(***************************************************************************)
EXTENDS Integers, Sequences, FiniteSets, TLC

VARIABLES
    pc,               \* position of main(), or of the function under test
    store,            \* the Zotero library behind the API: the items it lists
    zotero_items,     \* main: the snapshot returned by get_all_items
    start,            \* get_all_items: the paging offset
    wiki_pages,       \* the page content served for each entry of wiki_urls
    url_idx,          \* main: index of the wiki_url being processed
    citations,        \* main: the citations of the current page
    cit_idx,          \* main: index of the citation being checked
    new_items_added,  \* main: the counter
    references_bib,   \* entries written to references.bib by this run, -1: none
    list_failed,      \* this run's snapshot listing got a non-200 status
    fetch_failed,     \* this run failed to fetch a page
    seen,             \* the citations extracted in this run, in order
    judged,           \* the novelty decisions of this run: <<[citation, new]>>
    posted,           \* the create_item requests of this run: <<[citation, ok]>>
    run,              \* number of the run of main()
    prev_clean,       \* the previous run completed without any failure
    arg,              \* input of the function under test
    ret               \* its result

vars == <<pc, store, zotero_items, start, wiki_pages, url_idx, citations, cit_idx,
          new_items_added, references_bib, list_failed, fetch_failed, seen, judged,
          posted, run, prev_clean, arg, ret>>

mainVars == <<store, zotero_items, start, wiki_pages, url_idx, citations, cit_idx,
              new_items_added, references_bib, list_failed, fetch_failed, seen,
              judged, posted, run, prev_clean>>

\* main() is not running: the state of a function under test
MainIdle ==
    /\ store = <<>> /\ zotero_items = <<>> /\ start = 0 /\ wiki_pages = <<>>
    /\ url_idx = 0 /\ citations = <<>> /\ cit_idx = 0 /\ new_items_added = 0
    /\ references_bib = -1 /\ list_failed = FALSE /\ fetch_failed = FALSE
    /\ seen = <<>> /\ judged = <<>> /\ posted = <<>> /\ run = 0 /\ prev_clean = FALSE

-----------------------------------------------------------------------------
(* Python str primitives *)

SetMin(S) == CHOOSE x \in S : \A y \in S : x <= y

SetMax(S) == CHOOSE x \in S : \A y \in S : x >= y

Whitespace == {" ", "\n", "\t"}

DigitChars == {"0", "1", "2", "3", "4", "5", "6", "7", "8", "9"}

UpperChars == <<"A", "B", "C", "D", "E", "F", "G", "H", "I", "J", "K", "L", "M",
                "N", "O", "P", "Q", "R", "S", "T", "U", "V", "W", "X", "Y", "Z">>

LowerChars == <<"a", "b", "c", "d", "e", "f", "g", "h", "i", "j", "k", "l", "m",
                "n", "o", "p", "q", "r", "s", "t", "u", "v", "w", "x", "y", "z">>

\* \w of the re module, for the characters of the model
IsWordChar(c) ==
    \/ c \in DigitChars
    \/ c = "_"
    \/ \E i \in 1..26 : c = UpperChars[i] \/ c = LowerChars[i]

LowerChar(c) ==
    IF \E i \in 1..26 : UpperChars[i] = c
    THEN LowerChars[CHOOSE i \in 1..26 : UpperChars[i] = c]
    ELSE c

\* str.lower()
Lower(s) == [i \in 1..Len(s) |-> LowerChar(s[i])]

\* str.strip()
Strip(s) ==
    LET keep == {i \in 1..Len(s) : s[i] \notin Whitespace}
    IN  IF keep = {} THEN <<>> ELSE SubSeq(s, SetMin(keep), SetMax(keep))

\* s[:n]
Prefix(s, n) == SubSeq(s, 1, IF Len(s) < n THEN Len(s) ELSE n)

\* the pattern p stands in s at position i (1-based)
At(s, i, p) == i >= 1 /\ i + Len(p) - 1 <= Len(s) /\ SubSeq(s, i, i + Len(p) - 1) = p

\* the same under re.IGNORECASE
AtCI(s, i, p) ==
    i >= 1 /\ i + Len(p) - 1 <= Len(s) /\ Lower(SubSeq(s, i, i + Len(p) - 1)) = Lower(p)

\* Python's  a in b  for strings
StrIn(a, b) == \E i \in 1..(Len(b) - Len(a) + 1) : At(b, i, a)

\* first index >= from whose character is in the set cs; 0 when there is none
FirstOf(s, from, cs) ==
    LET hits == {j \in from..Len(s) : s[j] \in cs}
    IN  IF hits = {} THEN 0 ELSE SetMin(hits)

\* first index >= from where p stands (ignoring case); 0 when there is none
FirstAtCI(s, from, p) ==
    LET hits == {j \in from..Len(s) : AtCI(s, j, p)}
    IN  IF hits = {} THEN 0 ELSE SetMin(hits)

-----------------------------------------------------------------------------
(* Literals of the source *)

S_ref == <<"<", "r", "e", "f">>

S_refclose == <<"<", "/", "r", "e", "f", ">">>

S_cite == <<"{", "{", "c", "i", "t", "e">>

S_http == <<"[", "h", "t", "t", "p">>

S_colslash == <<":", "/", "/">>

S_ellipsis == <<".", ".", ".">>

S_cited_on == <<"C", "i", "t", "e", "d", " ", "o", "n", ":", " ">>

S_extracted == <<"\n", "E", "x", "t", "r", "a", "c", "t", "e", "d", " ",
                 "f", "r", "o", "m", ":", " ">>

\* citation['type'] as text
TypeText(type) ==
    CASE type = "ref_tag" -> <<"r", "e", "f", "_", "t", "a", "g">>
      [] type = "cite_template" ->
            <<"c", "i", "t", "e", "_", "t", "e", "m", "p", "l", "a", "t", "e">>
      [] type = "external_link" ->
            <<"e", "x", "t", "e", "r", "n", "a", "l", "_", "l", "i", "n", "k">>

RefMinLen == 10

LinkMinLen == 5

TitleLimit == 200

FallbackLimit == 100

PageLimit == 100

-----------------------------------------------------------------------------
(* extract_citations_from_wiki: the three patterns over the page content *)

Citation(type, content, url) == [type |-> type, content |-> content, source_url |-> url]

\* r'<ref[^>]*>(.*?)</ref>' (DOTALL, IGNORECASE) matched at i:
\* <<j, k>> with j the '>' ending the opening tag and k the start of the first
\* '</ref>' after it, or <<0, 0>>
RefMatchAt(s, i) ==
    IF ~AtCI(s, i, S_ref) THEN <<0, 0>>
    ELSE LET j == FirstOf(s, i + 4, {">"})
         IN  IF j = 0 THEN <<0, 0>>
             ELSE LET k == FirstAtCI(s, j + 1, S_refclose)
                  IN  IF k = 0 THEN <<0, 0>> ELSE <<j, k>>

RECURSIVE RefFindAll(_, _)
\* re.findall(ref_pattern, content): the groups of the non-overlapping matches
RefFindAll(s, p) ==
    LET starts == {i \in p..Len(s) : RefMatchAt(s, i)[1] # 0}
    IN  IF starts = {} THEN <<>>
        ELSE LET m == RefMatchAt(s, SetMin(starts))
             IN  <<SubSeq(s, m[1] + 1, m[2] - 1)>> \o RefFindAll(s, m[2] + 6)

\* r'<[^>]+>' matched at i: index of the closing '>', or 0
TagMatchAt(s, i) ==
    IF ~At(s, i, <<"<">>) THEN 0
    ELSE LET j == FirstOf(s, i + 1, {">"})
         IN  IF j = 0 \/ j = i + 1 THEN 0 ELSE j

RECURSIVE StripTags(_, _)
\* re.sub(r'<[^>]+>', '', match), from position p on
StripTags(s, p) ==
    LET starts == {i \in p..Len(s) : TagMatchAt(s, i) # 0}
    IN  IF starts = {} THEN SubSeq(s, p, Len(s))
        ELSE LET i == SetMin(starts)
             IN  SubSeq(s, p, i - 1) \o StripTags(s, TagMatchAt(s, i) + 1)

\* r'\{\{cite\s+[^}]+\}\}' (IGNORECASE) matched at i: index of the last
\* character of the match, or 0
CiteMatchAt(s, i) ==
    IF ~(AtCI(s, i, S_cite) /\ i + 6 <= Len(s) /\ s[i + 6] \in Whitespace) THEN 0
    ELSE LET j == FirstOf(s, i + 7, {"}"})
         IN  IF j = 0 \/ j = i + 7 \/ ~At(s, j, <<"}", "}">>) THEN 0 ELSE j + 1

RECURSIVE CiteFindAll(_, _)
\* re.findall(cite_pattern, content)
CiteFindAll(s, p) ==
    LET starts == {i \in p..Len(s) : CiteMatchAt(s, i) # 0}
    IN  IF starts = {} THEN <<>>
        ELSE LET i == SetMin(starts)
             IN  <<SubSeq(s, i, CiteMatchAt(s, i))>> \o CiteFindAll(s, CiteMatchAt(s, i) + 1)

\* r'\[https?://[^\s\]]+\s+([^\]]+)\]' matched at i: <<g, e>> with g the start of
\* the group and e the index of the closing ']', or <<0, 0>>
LinkMatchAt(s, i) ==
    IF ~At(s, i, S_http) THEN <<0, 0>>
    ELSE LET a == IF At(s, i + 5, <<"s">>) THEN i + 6 ELSE i + 5
         IN  IF ~At(s, a, S_colslash) THEN <<0, 0>>
             ELSE LET u == a + 3
                      w == FirstOf(s, u, Whitespace \cup {"]"})
                  IN  IF w = 0 \/ w = u \/ s[w] = "]" THEN <<0, 0>>
                      ELSE LET nonws == {j \in w..Len(s) : s[j] \notin Whitespace}
                               g == IF nonws = {} THEN Len(s) + 1 ELSE SetMin(nonws)
                               e == FirstOf(s, w, {"]"})
                           IN  IF e = 0 THEN <<0, 0>>
                               ELSE IF g < e THEN <<g, e>>
                               \* the label is blank: \s+ gives one character back
                               ELSE IF e - 1 > w THEN <<e - 1, e>>
                               ELSE <<0, 0>>

RECURSIVE LinkFindAll(_, _)
\* re.findall(link_pattern, content)
LinkFindAll(s, p) ==
    LET starts == {i \in p..Len(s) : LinkMatchAt(s, i)[1] # 0}
    IN  IF starts = {} THEN <<>>
        ELSE LET m == LinkMatchAt(s, SetMin(starts))
             IN  <<SubSeq(s, m[1], m[2] - 1)>> \o LinkFindAll(s, m[2] + 1)

\* clean_ref = re.sub(r'<[^>]+>', '', match).strip()
CleanRef(match) == Strip(StripTags(match, 1))

\* the length test off by one: >= 10
KeepRefOffByOne(clean_ref) == Len(clean_ref) > 0 /\ Len(clean_ref) >= RefMinLen

\* if clean_ref and len(clean_ref) > 10
KeepRef(clean_ref) == Len(clean_ref) > 0 /\ Len(clean_ref) > RefMinLen

\* if len(match.strip()) > 5
KeepLink(match) == Len(Strip(match)) > LinkMinLen

RefCitations(content, url) ==
    LET cleaned == [i \in 1..Len(RefFindAll(content, 1)) |-> CleanRef(RefFindAll(content, 1)[i])]
        kept == SelectSeq(cleaned, KeepRef)
    IN  [i \in 1..Len(kept) |-> Citation("ref_tag", kept[i], url)]

CiteCitations(content, url) ==
    LET ms == CiteFindAll(content, 1)
    IN  [i \in 1..Len(ms) |-> Citation("cite_template", Strip(ms[i]), url)]

LinkCitations(content, url) ==
    LET kept == SelectSeq(LinkFindAll(content, 1), KeepLink)
    IN  [i \in 1..Len(kept) |-> Citation("external_link", Strip(kept[i]), url)]

\* the citations list built from a fetched page
ExtractCitations(content, url) ==
    RefCitations(content, url) \o CiteCitations(content, url) \o LinkCitations(content, url)

-----------------------------------------------------------------------------
(* parse_cite_template *)

\* re.sub(r'^\{\{cite\s+\w+\s*\|?', '', cite_template, flags=re.IGNORECASE)
StripMarker(t) ==
    IF ~(AtCI(t, 1, S_cite) /\ Len(t) >= 7 /\ t[7] \in Whitespace) THEN t
    ELSE LET nonws == {j \in 7..Len(t) : t[j] \notin Whitespace}
             w == IF nonws = {} THEN Len(t) + 1 ELSE SetMin(nonws)
         IN  IF w > Len(t) \/ ~IsWordChar(t[w]) THEN t
             ELSE LET nonword == {j \in w..Len(t) : ~IsWordChar(t[j])}
                      a == IF nonword = {} THEN Len(t) + 1 ELSE SetMin(nonword)
                      rest == {j \in a..Len(t) : t[j] \notin Whitespace}
                      b == IF rest = {} THEN Len(t) + 1 ELSE SetMin(rest)
                      c == IF b <= Len(t) /\ t[b] = "|" THEN b + 1 ELSE b
                  IN  SubSeq(t, c, Len(t))

\* re.sub(r'\}\}$', '', content): '$' also matches before a final newline
StripCloser(t) ==
    IF At(t, Len(t) - 1, <<"}", "}">>) THEN SubSeq(t, 1, Len(t) - 2)
    ELSE IF At(t, Len(t) - 2, <<"}", "}", "\n">>) THEN SubSeq(t, 1, Len(t) - 3) \o <<"\n">>
    ELSE t

\* the depth test dropped: every '|' ends the field
SplitHereAnyDepth(brace_count) == TRUE

\* the body of  if char == '|' and brace_count == 0, for a '|'
SplitHere(brace_count) == brace_count = 0

\* brace_count when the loop reaches content[i]: every '{' before it has added
\* one and every '}' before it has taken one away
BraceCount(content, i) ==
    Cardinality({j \in 1..(i - 1) : content[j] = "{"})
        - Cardinality({j \in 1..(i - 1) : content[j] = "}"})

\* the indices where the loop ends current_part: elif char == '|' and brace_count == 0
SplitPoints(content) ==
    {i \in 1..Len(content) : content[i] = "|" /\ SplitHere(BraceCount(content, i))}

\* current_part when the loop ends it at index cut (or at the end of content):
\* the characters since the previous split point
CurrentPart(content, cut) ==
    LET before == {j \in SplitPoints(content) : j < cut}
        from == IF before = {} THEN 1 ELSE SetMax(before) + 1
    IN  SubSeq(content, from, cut - 1)

\* for char in content: ... ; then the trailing  if current_part.strip()
SplitLoop(content) ==
    LET cuts == SplitPoints(content)
        order == [n \in 1..Cardinality(cuts) |->
                    CHOOSE i \in cuts : Cardinality({j \in cuts : j < i}) = n - 1]
        parts == [n \in 1..Cardinality(cuts) |-> Strip(CurrentPart(content, order[n]))]
        current_part == CurrentPart(content, Len(content) + 1)
    IN  IF Strip(current_part) # <<>> THEN Append(parts, Strip(current_part)) ELSE parts

\* the parts list of parse_cite_template
SplitParts(cite_template) == SplitLoop(StripCloser(StripMarker(cite_template)))

\* field_mapping; "" for a key it does not hold
FieldMapping(key) ==
    CASE key = <<"t", "i", "t", "l", "e">> -> "title"
      [] key = <<"a", "u", "t", "h", "o", "r">> -> "creators"
      [] key = <<"y", "e", "a", "r">> -> "date"
      [] key = <<"j", "o", "u", "r", "n", "a", "l">> -> "publicationTitle"
      [] key = <<"v", "o", "l", "u", "m", "e">> -> "volume"
      [] key = <<"i", "s", "s", "u", "e">> -> "issue"
      [] key = <<"p", "a", "g", "e", "s">> -> "pages"
      [] key = <<"d", "o", "i">> -> "DOI"
      [] key = <<"u", "r", "l">> -> "url"
      [] key = <<"p", "u", "b", "l", "i", "s", "h", "e", "r">> -> "publisher"
      [] key = <<"i", "s", "b", "n">> -> "ISBN"
      [] OTHER -> ""

\* d[k] = v on a dict
DictSet(d, k, v) == [x \in DOMAIN d \cup {k} |-> IF x = k THEN v ELSE d[x]]

\* d.update(e)
DictUpdate(d, e) == [x \in DOMAIN d \cup DOMAIN e |-> IF x \in DOMAIN e THEN e[x] ELSE d[x]]

\* d.get(k, '')
DictGet(d, k) == IF k \in DOMAIN d THEN d[k] ELSE <<>>

EmptyDict == [x \in {} |-> <<>>]

Author(name) == <<[creatorType |-> "author", name |-> name]>>

\* the body of  for part in parts  for one part
ParsePart(data, part) ==
    LET eq == FirstOf(part, 1, {"="})
    IN  IF eq = 0 THEN data
        ELSE LET key == Lower(Strip(SubSeq(part, 1, eq - 1)))
                 value == Strip(SubSeq(part, eq + 1, Len(part)))
                 field == FieldMapping(key)
             IN  IF field = "" THEN data
                 ELSE IF field = "creators" THEN DictSet(data, "creators", Author(value))
                 ELSE DictSet(data, field, value)

RECURSIVE ParseParts(_, _, _)
ParseParts(parts, i, data) ==
    IF i > Len(parts) THEN data
    ELSE ParseParts(parts, i + 1, ParsePart(data, parts[i]))

parse_cite_template(cite_template) == ParseParts(SplitParts(cite_template), 1, EmptyDict)

-----------------------------------------------------------------------------
(* create_zotero_item_from_citation *)

BaseItem(citation) ==
    [itemType |-> "webpage",
     title |-> <<>>,
     creators |-> <<>>,
     tags |-> <<[tag |-> "source:wikiversity"]>>,
     extra |-> S_cited_on \o citation.source_url \o S_extracted \o TypeText(citation.type)]

\* the itemType decided from parsed_data
TemplateItemType(parsed_data) ==
    IF "publicationTitle" \in DOMAIN parsed_data THEN "journalArticle"
    ELSE IF "publisher" \in DOMAIN parsed_data THEN "book"
    ELSE "webpage"

\* base_item['title'] = citation['content'][:200]
TemplateFallbackTitle(content) == Prefix(content, TitleLimit)

\* content[:200] + ('...' if len(content) > 200 else '')
RefTitle(content) ==
    Prefix(content, TitleLimit) \o (IF Len(content) > TitleLimit THEN S_ellipsis ELSE <<>>)

\* base_item['title'] = citation['content']
LinkTitle(content) == content

\* citation['content'][:100] + ('...' if len(citation['content']) > 100 else '')
LastResortTitle(content) ==
    Prefix(content, FallbackLimit) \o (IF Len(content) > FallbackLimit THEN S_ellipsis ELSE <<>>)

\* re.search(r'^([^(]+)\s*\((\d{4})\)', content): <<author_name, year>> or <<>>
AuthorYearMatch(content) ==
    LET p == FirstOf(content, 1, {"("})
    IN  IF p >= 2 /\ p + 5 <= Len(content)
           /\ (\A j \in (p + 1)..(p + 4) : content[j] \in DigitChars)
           /\ content[p + 5] = ")"
        THEN <<Strip(SubSeq(content, 1, p - 1)), SubSeq(content, p + 1, p + 4)>>
        ELSE <<>>

TemplateItem(citation) ==
    LET parsed_data == parse_cite_template(citation.content)
        merged == DictUpdate(BaseItem(citation), parsed_data)
        typed == DictSet(merged, "itemType",
                         IF TemplateItemType(parsed_data) = "webpage"
                         THEN merged.itemType ELSE TemplateItemType(parsed_data))
    IN  IF DictGet(typed, "title") = <<>>
        THEN DictSet(typed, "title", TemplateFallbackTitle(citation.content))
        ELSE typed

RefItem(citation) ==
    LET m == AuthorYearMatch(citation.content)
        base == BaseItem(citation)
        withAuthor == IF m = <<>> THEN base
                      ELSE DictSet(DictSet(base, "creators", Author(m[1])), "date", m[2])
    IN  DictSet(withAuthor, "title", RefTitle(citation.content))

LinkItem(citation) ==
    DictSet(DictSet(BaseItem(citation), "title", LinkTitle(citation.content)),
            "itemType", "webpage")

create_zotero_item_from_citation(citation) ==
    LET item == CASE citation.type = "cite_template" -> TemplateItem(citation)
                  [] citation.type = "ref_tag" -> RefItem(citation)
                  [] citation.type = "external_link" -> LinkItem(citation)
                  [] OTHER -> BaseItem(citation)
    IN  IF DictGet(item, "title") = <<>>
        THEN DictSet(item, "title", LastResortTitle(citation.content))
        ELSE item

-----------------------------------------------------------------------------
(* citation_exists_in_zotero *)

\* title and (citation_text in title or title in citation_text)
TitleMatches(citation_text, title) ==
    title # <<>> /\ (StrIn(citation_text, title) \/ StrIn(title, citation_text))

\* abstract and (citation_text in abstract or abstract in citation_text)
AbstractMatches(citation_text, abstract) ==
    abstract # <<>> /\ (StrIn(citation_text, abstract) \/ StrIn(abstract, citation_text))

\* the containment test in both directions, as for the title
ExtraMatchesBothWays(citation_text, extra) ==
    extra # <<>> /\ (StrIn(citation_text, extra) \/ StrIn(extra, citation_text))

\* extra and citation_text in extra
ExtraMatches(citation_text, extra) ==
    extra # <<>> /\ StrIn(citation_text, extra)

\* one turn of  for item in zotero_items
ItemMatches(citation_text, item) ==
    LET item_data == IF "data" \in DOMAIN item THEN item.data ELSE EmptyDict
    IN  \/ TitleMatches(citation_text, Lower(DictGet(item_data, "title")))
        \/ AbstractMatches(citation_text, Lower(DictGet(item_data, "abstractNote")))
        \/ ExtraMatches(citation_text, Lower(DictGet(item_data, "extra")))

citation_exists_in_zotero(citation, items) ==
    \E i \in 1..Len(items) : ItemMatches(Lower(citation.content), items[i])

-----------------------------------------------------------------------------
(* Inputs of the functions under test *)

MaxSpan == 12

MaxOver == 2

MaxFields == 3

Alpha == <<"A", "b", "c", "d", "e">>

\* a text of exactly n characters without whitespace or markup
Word(n) == [i \in 1..n |-> Alpha[((i - 1) % 5) + 1]]

WikiUrl == <<"w", "/", "1">>

\* pages holding one inline reference whose span has n visible characters
RefPages ==
    { <<"<", "r", "e", "f", ">">> \o Word(n) \o S_refclose : n \in 0..MaxSpan }
    \cup { <<"<", "r", "e", "f", " ", "n", "a", "m", "e", "=", "a", ">", " ">> \o Word(n) \o <<" ", "<", "/", "R", "E", "F", ">">> : n \in 0..MaxSpan }
    \cup { <<"<", "r", "e", "f", ">", "<", "b", ">">> \o Word(n) \o <<"<", "/", "b", ">", "\n", "<", "/", "r", "e", "f", ">">> : n \in 0..MaxSpan }
    \cup { <<"<", "r", "e", "f", ">", "<", "<", "i", ">", ">">> \o Word(n) \o <<"<", ">">> \o S_refclose
             : n \in 0..MaxSpan }
    \cup { <<"<", "r", "e", "f", ">">> \o Word(8) \o S_refclose \o <<"<", "R", "e", "f", ">">> \o Word(n) \o S_refclose
             : n \in 0..MaxSpan }

\* pages holding one labelled external link whose label has n visible characters
LinkPages ==
    { <<"[", "h", "t", "t", "p", ":", "/", "/", "x", ".", "y", " ">> \o Word(n) \o <<"]">> : n \in 0..MaxSpan }
    \cup { <<"s", "e", "e", " ", "[", "h", "t", "t", "p", "s", ":", "/", "/", "x", ".", "y", " ", "\t">> \o Word(n) \o <<" ", "]", " ", ".">> : n \in 0..MaxSpan }

\* balanced {{cite ...}} invocations, some with a nested {{...}} span
Templates ==
    { <<"{", "{", "c", "i", "t", "e", " ", "w", "e", "b", "|", "t", "i", "t", "l", "e", "=", "A", "b", "}", "}">>,
      <<"{", "{", "C", "i", "t", "e", " ", "j", "o", "u", "r", "n", "a", "l", " ", "|", "t", "i", "t", "l", "e", "=", "A", "b", "|", "j", "o", "u", "r", "n", "a", "l", "=", "N", "}", "}">>,
      <<"{", "{", "c", "i", "t", "e", " ", "b", "o", "o", "k", "|", "t", "i", "t", "l", "e", "=", "A", "b", "|", "y", "e", "a", "r", "=", "2", "0", "2", "0", "|", "p", "u", "b", "l", "i", "s", "h", "e", "r", "=", "P", "}", "}">>,
      <<"{", "{", "c", "i", "t", "e", " ", "w", "e", "b", "|", "t", "i", "t", "l", "e", "=", "{", "{", "x", "|", "y", "}", "}", " ", "z", "}", "}">>,
      <<"{", "{", "c", "i", "t", "e", " ", "w", "e", "b", "|", "t", "i", "t", "l", "e", "=", "a", " ", "{", "{", "x", "|", "y", "}", "}", "}", "}">>,
      <<"{", "{", "c", "i", "t", "e", " ", "w", "e", "b", "|", "a", "u", "t", "h", "o", "r", "=", "{", "{", "u", "|", "v", "}", "}", "|", "t", "i", "t", "l", "e", "=", "A", "b", "}", "}">> }

TemplateContexts ==
    { <<<<>>, <<>>>>,
      <<<<"s", "e", "e", " ">>, <<".">>>>,
      <<<<"<", "r", "e", "f", ">">>, S_refclose>>,
      <<<<"{", "{", "n", "o", "t", "e", "}", "}", " ">>, <<" ", "[", "h", "t", "t", "p", ":", "/", "/", "x", ".", "y", " ", "L", "a", "b", "e", "l", " ", "o", "n", "e", "]">>>> }

ScanInputs ==
    { [content |-> p, tpl |-> <<>>] : p \in RefPages \cup LinkPages }
    \cup { [content |-> c[1] \o t \o c[2], tpl |-> t] : t \in Templates, c \in TemplateContexts }

-----------------------------------------------------------------------------
(* The scanner under test *)

ScanInit ==
    /\ pc = "scan_call"
    /\ arg \in ScanInputs
    /\ ret = <<>>
    /\ MainIdle

\* extract_citations_from_wiki on a page that was fetched
Scan ==
    /\ pc = "scan_call"
    /\ ret' = ExtractCitations(arg.content, WikiUrl)
    /\ pc' = "scan_ret"
    /\ UNCHANGED <<arg, mainVars>>

ScanNext == Scan

SpecScan == ScanInit /\ [][ScanNext]_vars

HasTag(text) == \E i \in 1..Len(text) : TagMatchAt(text, i) # 0

\* C9: every citation the scanner yields has non-empty text; every ref_tag
\* citation has cleaned text (no embedded tag, no surrounding whitespace) of more
\* than 10 characters; every external_link citation has a label of more than 5
\* characters
NoiseFiltered ==
    pc = "scan_ret" =>
        \A i \in 1..Len(ret) :
            /\ Len(ret[i].content) > 0
            /\ ret[i].type = "ref_tag" =>
                  /\ Len(ret[i].content) > 10
                  /\ ~HasTag(ret[i].content)
                  /\ Strip(ret[i].content) = ret[i].content
            /\ ret[i].type = "external_link" => Len(ret[i].content) > 5

\* a page with a reference span of 8 characters and one of 11: only the second
\* is yielded
NoiseFilteredWitness ==
    /\ pc = "scan_ret"
    /\ arg.content = <<"<", "r", "e", "f", ">">> \o Word(8) \o S_refclose \o <<"<", "R", "e", "f", ">">> \o Word(11) \o S_refclose
    /\ ret = <<Citation("ref_tag", Word(11), WikiUrl)>>

\* C10: a balanced {{cite ...}} invocation in the page is yielded as one
\* cite_template citation whose text is the invocation verbatim
TemplateVerbatim ==
    (pc = "scan_ret" /\ arg.tpl # <<>>) =>
        \E i \in 1..Len(ret) : ret[i].type = "cite_template" /\ ret[i].content = arg.tpl

-----------------------------------------------------------------------------
(* The template field parser under test *)

SegNested == <<"t", "i", "t", "l", "e", "=", "a", " ", "{", "{", "x", "|", "y", "}", "}", " ", "b">>

SegDeep == <<"a", "u", "t", "h", "o", "r", "=", "{", "{", "u", "|", "{", "{", "v", "|", "w", "}", "}", "}", "}">>

Segments ==
    { <<"t", "i", "t", "l", "e", "=", "A", "b">>, SegNested, SegDeep, <<"u", "r", "l", "=", "h", "?", "a", "=", "1">>, <<" ", "j", "o", "u", "r", "n", "a", "l", " ", "=", " ", "N", " ">>,
      <<>>, <<" ">> }

RECURSIVE Join(_, _)
\* sep.join(segs)
Join(segs, sep) ==
    IF Len(segs) = 0 THEN <<>>
    ELSE IF Len(segs) = 1 THEN segs[1]
    ELSE segs[1] \o sep \o Join(Tail(segs), sep)

\* the template whose body holds the segments, separated at depth zero
Template(segs) == <<"{", "{", "c", "i", "t", "e", " ", "w", "e", "b", "|">> \o Join(segs, <<"|">>) \o <<"}", "}">>

ParseInputs == UNION { [1..n -> Segments] : n \in 1..MaxFields }

ParseInit ==
    /\ pc = "parse_call"
    /\ arg \in ParseInputs
    /\ ret = <<>>
    /\ MainIdle

\* parse_cite_template, with the parts list it builds on the way
Parse ==
    /\ pc = "parse_call"
    /\ ret' = [parts |-> SplitParts(Template(arg)), data |-> parse_cite_template(Template(arg))]
    /\ pc' = "parse_ret"
    /\ UNCHANGED <<arg, mainVars>>

ParseNext == Parse

SpecParse == ParseInit /\ [][ParseNext]_vars

HasNestedSeparator(segs) == \E i \in 1..Len(segs) : segs[i] \in {SegNested, SegDeep}

IsTitleSeg(seg) == At(seg, 1, <<"t", "i", "t", "l", "e", "=">>)

\* C7 as stated: with a '|' inside a balanced nested span of a field value, the
\* number of fields is the number of depth-zero separators plus one and every
\* field is kept whole
NestedSafeAsStated ==
    (pc = "parse_ret" /\ HasNestedSeparator(arg)) =>
        /\ Len(ret.parts) = Len(arg)
        /\ \A i \in 1..Len(arg) : ret.parts[i] = Strip(arg[i])

\* C7, amended: a '|' splits only at depth zero, so every field is kept whole; the
\* number of fields is the number of depth-zero separators plus one, except that
\* a blank text after the last separator makes no field
NestedSafe ==
    pc = "parse_ret" =>
        /\ Len(ret.parts) = (IF Strip(arg[Len(arg)]) = <<>> THEN Len(arg) - 1 ELSE Len(arg))
        /\ \A i \in 1..Len(ret.parts) : ret.parts[i] = Strip(arg[i])
        /\ \A i \in 1..Len(arg) :
              (arg[i] = SegNested /\ \A j \in (i + 1)..Len(arg) : ~IsTitleSeg(arg[j]))
                  => DictGet(ret.data, "title") = <<"a", " ", "{", "{", "x", "|", "y", "}", "}", " ", "b">>

NestedSafeWitness ==
    /\ pc = "parse_ret"
    /\ arg = <<SegNested, SegDeep>>
    /\ ret.parts = <<SegNested, SegDeep>>
    /\ ret.data.title = <<"a", " ", "{", "{", "x", "|", "y", "}", "}", " ", "b">>

-----------------------------------------------------------------------------
(* The record canonicalizer under test *)

CanonLens == {60} \cup ((TitleLimit - MaxOver)..(TitleLimit + MaxOver))

\* head, then filler up to n characters in all, then tail
Fit(head, n, tail) == head \o Word(n - Len(head) - Len(tail)) \o tail

TemplateHeads ==
    { <<"{", "{", "c", "i", "t", "e", " ", "w", "e", "b", "|", "n", "o", "t", "e", "=">>,
      <<"{", "{", "c", "i", "t", "e", " ", "w", "e", "b", "|", "t", "i", "t", "l", "e", "=", "F", "o", "o", "|", "n", "o", "t", "e", "=">>,
      <<"{", "{", "c", "i", "t", "e", " ", "w", "e", "b", "|", "t", "i", "t", "l", "e", "=", "|", "n", "o", "t", "e", "=">>,
      <<"{", "{", "c", "i", "t", "e", " ", "j", "o", "u", "r", "n", "a", "l", "|", "j", "o", "u", "r", "n", "a", "l", "=", "N", "a", "t", "u", "r", "e", "|", "n", "o", "t", "e", "=">>,
      <<"{", "{", "c", "i", "t", "e", " ", "j", "o", "u", "r", "n", "a", "l", "|", "j", "o", "u", "r", "n", "a", "l", "=", "|", "n", "o", "t", "e", "=">>,
      <<"{", "{", "c", "i", "t", "e", " ", "b", "o", "o", "k", "|", "p", "u", "b", "l", "i", "s", "h", "e", "r", "=", "P", "|", "n", "o", "t", "e", "=">>,
      <<"{", "{", "c", "i", "t", "e", " ", "b", "o", "o", "k", "|", "p", "u", "b", "l", "i", "s", "h", "e", "r", "=", " ", "|", "n", "o", "t", "e", "=">>,
      <<"{", "{", "c", "i", "t", "e", " ", "x", "|", "j", "o", "u", "r", "n", "a", "l", "=", "N", "|", "p", "u", "b", "l", "i", "s", "h", "e", "r", "=", "P", "|", "n", "o", "t", "e", "=">>,
      <<"{", "{", "c", "i", "t", "e", " ", "x", "|", "j", "o", "u", "r", "n", "a", "l", "=", "|", "p", "u", "b", "l", "i", "s", "h", "e", "r", "=", "P", "|", "n", "o", "t", "e", "=">>,
      <<"{", "{", "c", "i", "t", "e", " ", "j", "o", "u", "r", "n", "a", "l", "|", "t", "i", "t", "l", "e", "=", "F", "o", "o", "|", "a", "u", "t", "h", "o", "r", "=", "J", "a", "n", "e", " ", "D", "o", "e", "|", "y", "e", "a", "r", "=", "2", "0", "2", "0", "|", "j", "o", "u", "r", "n", "a", "l", "=", "N", "a", "t", "u", "r", "e", "|", "n", "o", "t", "e", "=">> }

CanonInputs ==
    { Citation("cite_template", Fit(h, n, <<"}", "}">>), WikiUrl) : h \in TemplateHeads, n \in CanonLens }
    \cup { Citation("ref_tag", Fit(h, n, <<".">>), WikiUrl)
             : h \in {<<"S", "m", "i", "t", "h", " ", "(", "2", "0", "2", "0", ")", " ">>, <<"S", "e", "e", " ", "(", "p", ".", " ", "3", ")", " ">>}, n \in CanonLens }
    \cup { Citation("external_link", Fit(<<>>, n, <<>>), WikiUrl) : n \in CanonLens }

CanonInit ==
    /\ pc = "canon_call"
    /\ arg \in CanonInputs
    /\ ret = <<>>
    /\ MainIdle

Canon ==
    /\ pc = "canon_call"
    /\ ret' = create_zotero_item_from_citation(arg)
    /\ pc' = "canon_ret"
    /\ UNCHANGED <<arg, mainVars>>

CanonNext == Canon

SpecCanon == CanonInit /\ [][CanonNext]_vars

HasParsedTitle(citation) ==
    citation.type = "cite_template"
        /\ DictGet(parse_cite_template(citation.content), "title") # <<>>

\* C6: a citation text of more than 200 characters (of a ref_tag, an
\* external_link, or a cite_template without a parsed title) gets as title its
\* first 200 characters followed by the ellipsis
TruncationInvariant ==
    (pc = "canon_ret" /\ Len(arg.content) > 200 /\ ~HasParsedTitle(arg)) =>
        ret.title = SubSeq(arg.content, 1, 200) \o <<".", ".", ".">>

\* C8: the record type is journalArticle iff a venue is present and non-empty,
\* book iff a publisher was parsed and there is no venue, webpage otherwise
RecordTypeInvariant ==
    pc = "canon_ret" =>
        LET venue == DictGet(ret, "publicationTitle")
            publisher == "publisher" \in DOMAIN ret
        IN  /\ ret.itemType = "journalArticle" <=> venue # <<>>
            /\ ret.itemType = "book" <=> (publisher /\ venue = <<>>)
            /\ ret.itemType = "webpage" <=> (~publisher /\ venue = <<>>)

-----------------------------------------------------------------------------
(* The reconciliation matcher under test *)

MatchTexts ==
    { <<>>,
      <<"D", "e", "e", "p", " ", "L", "e", "a", "r", "n", "i", "n", "g", " ", "S", "u", "r", "v", "e", "y">>,
      <<"A", " ", "d", "e", "e", "p", " ", "l", "e", "a", "r", "n", "i", "n", "g", " ", "s", "u", "r", "v", "e", "y", " ", "o", "f", " ", "m", "e", "t", "h", "o", "d", "s">>,
      <<"U", "n", "r", "e", "l", "a", "t", "e", "d", " ", "P", "a", "p", "e", "r", " ", "X", "Y", "Z">>,
      <<"s", "u", "r", "v", "e", "y">>,
      <<"P", "a", "p", "e", "r">>,
      <<"x", "y", "z", " ">> }

MatchFields == {"title", "abstractNote", "extra"}

MatchInputs == [a : MatchTexts, b : MatchTexts, field : MatchFields]

\* an existing record holding text in one field only
ItemWith(field, text) == [data |-> [x \in {field} |-> text]]

MatchInit ==
    /\ pc = "match_call"
    /\ arg \in MatchInputs
    /\ ret = <<>>
    /\ MainIdle

\* citation_exists_in_zotero for candidate a against a record holding b, and for
\* candidate b against a record holding a
Match ==
    /\ pc = "match_call"
    /\ ret' = [ab |-> citation_exists_in_zotero(Citation("ref_tag", arg.a, WikiUrl),
                                                <<ItemWith(arg.field, arg.b)>>),
               ba |-> citation_exists_in_zotero(Citation("ref_tag", arg.b, WikiUrl),
                                                <<ItemWith(arg.field, arg.a)>>)]
    /\ pc' = "match_ret"
    /\ UNCHANGED <<arg, mainVars>>

MatchNext == Match

SpecMatch == MatchInit /\ [][MatchNext]_vars

-----------------------------------------------------------------------------
(* main(): one run after another over the same pages and the same library *)

MaxRuns == 2

StatusCodes == {200, 500}

\* the wiki_url of entry i of wiki_urls
WikiUrlOf(i) == <<"w", "/">> \o <<IF i = 1 THEN "1" ELSE IF i = 2 THEN "2" ELSE "3">>

PgShort == <<"<", "r", "e", "f", ">">> \o Word(11) \o S_refclose \o <<" ", "a", "n", "d", " ", "<", "r", "e", "f", ">">> \o Word(11) \o S_refclose

PgLong == <<"<", "r", "e", "f", ">">> \o Fit(<<"S", "m", "i", "t", "h", " ", "(", "2", "0", "2", "0", ")", " ">>, TitleLimit + 1, <<>>) \o S_refclose

PgMixed == <<"{", "{", "c", "i", "t", "e", " ", "j", "o", "u", "r", "n", "a", "l", "|", "t", "i", "t", "l", "e", "=", "F", "o", "o", "|", "j", "o", "u", "r", "n", "a", "l", "=", "N", "a", "t", "u", "r", "e", "}", "}", " ", "[", "h", "t", "t", "p", ":", "/", "/", "x", ".", "y", " ", "L", "a", "b", "e", "l", " ", "o", "n", "e", "]">>

PgOne == <<"<", "r", "e", "f", ">">> \o Word(12) \o S_refclose

PgNone == <<"N", "o", " ", "c", "i", "t", "a", "t", "i", "o", "n", " ", "h", "e", "r", "e", ".">>

Filler == ItemWith("title", <<"Q", "q", "7">>)

\* a library of more than one listing page, whose last item holds Word(11)
BigStore == [i \in 1..(PageLimit + 1) |-> IF i <= PageLimit THEN Filler ELSE ItemWith("title", Word(11))]

\* the pages of wiki_urls and the library at the first run
Scenarios ==
    { [pages |-> <<PgShort>>, store |-> <<>>],
      [pages |-> <<PgLong>>, store |-> <<>>],
      [pages |-> <<PgMixed, PgOne>>, store |-> <<>>],
      [pages |-> <<PgMixed>>, store |-> <<ItemWith("title", <<"F", "o", "o">>)>>],
      [pages |-> <<PgNone, PgLong>>, store |-> <<ItemWith("abstractNote", <<"s", "m", "i", "t", "h">>)>>],
      [pages |-> <<PgShort>>, store |-> BigStore] }

Init ==
    /\ pc = "main"
    /\ \E sc \in Scenarios : wiki_pages = sc.pages /\ store = sc.store
    /\ zotero_items = <<>> /\ start = 0
    /\ url_idx = 0 /\ citations = <<>> /\ cit_idx = 0 /\ new_items_added = 0
    /\ references_bib = -1 /\ list_failed = FALSE /\ fetch_failed = FALSE
    /\ seen = <<>> /\ judged = <<>> /\ posted = <<>>
    /\ run = 1 /\ prev_clean = FALSE
    /\ arg = <<>> /\ ret = <<>>

\* the library's answer to GET /items?start=..&limit=100
ListResponse(st, from) ==
    SubSeq(st, from + 1, IF from + PageLimit < Len(st) THEN from + PageLimit ELSE Len(st))

\* every request answered 200: the items get_all_items returns
RECURSIVE AllPages(_, _)
AllPages(st, from) ==
    IF ListResponse(st, from) = <<>> THEN <<>>
    ELSE ListResponse(st, from) \o AllPages(st, from + PageLimit)

\* the counter counts every request
CountAfterAlways(n, result) == n + 1

\* if result: new_items_added += 1
CountAfter(n, result) == IF result THEN n + 1 ELSE n

\* each decision against the live library
SnapshotForLive(items, st) == st

\* the collection main passes to citation_exists_in_zotero
SnapshotFor(items, st) == items

\* create_item: the parsed answer on 200, None otherwise
CreateItemResult(status) == status = 200

\* main up to the listing: the credentials check, then zotero.get_all_items()
Main ==
    /\ pc = "main"
    /\ \E credentials \in BOOLEAN :
          pc' = IF credentials THEN "listing" ELSE "no_credentials"
    /\ zotero_items' = <<>>
    /\ start' = 0
    /\ UNCHANGED <<store, wiki_pages, url_idx, citations, cit_idx, new_items_added,
                   references_bib, list_failed, fetch_failed, seen, judged, posted,
                   run, prev_clean, arg, ret>>

\* one turn of the while loop of get_all_items
ListPage ==
    /\ pc = "listing"
    /\ \E status \in StatusCodes :
          IF status # 200
          THEN \* print, break, return all_items
               /\ list_failed' = TRUE
               /\ pc' = "pages"
               /\ UNCHANGED <<zotero_items, start>>
          ELSE IF ListResponse(store, start) = <<>>
          THEN /\ pc' = "pages"
               /\ UNCHANGED <<zotero_items, start, list_failed>>
          ELSE /\ zotero_items' = zotero_items \o ListResponse(store, start)
               /\ start' = start + PageLimit
               /\ UNCHANGED <<pc, list_failed>>
    /\ url_idx' = 1
    /\ new_items_added' = 0
    /\ UNCHANGED <<store, wiki_pages, citations, cit_idx, references_bib, fetch_failed,
                   seen, judged, posted, run, prev_clean, arg, ret>>

\* for wiki_url in wiki_urls: citations = extract_citations_from_wiki(wiki_url)
FetchPage ==
    /\ pc = "pages"
    /\ url_idx <= Len(wiki_pages)
    /\ \E fetched \in BOOLEAN :
          /\ citations' = IF fetched
                          THEN ExtractCitations(wiki_pages[url_idx], WikiUrlOf(url_idx))
                          ELSE <<>>
          /\ fetch_failed' = (fetch_failed \/ ~fetched)
    /\ seen' = seen \o citations'
    /\ cit_idx' = 1
    /\ pc' = "citations"
    /\ UNCHANGED <<store, zotero_items, start, wiki_pages, url_idx, new_items_added,
                   references_bib, list_failed, judged, posted, run, prev_clean, arg, ret>>

\* one turn of  for citation in citations
CheckCitation ==
    /\ pc = "citations"
    /\ cit_idx <= Len(citations)
    /\ LET citation == citations[cit_idx]
           new == ~citation_exists_in_zotero(citation, SnapshotFor(zotero_items, store))
           item_data == create_zotero_item_from_citation(citation)
       IN  /\ judged' = Append(judged, [citation |-> citation, new |-> new])
           /\ IF new
              THEN \E status \in StatusCodes :
                      LET result == CreateItemResult(status)
                      IN  /\ store' = IF status = 200
                                      THEN Append(store, [data |-> item_data])
                                      ELSE store
                          /\ posted' = Append(posted, [citation |-> citation, ok |-> result])
                          /\ new_items_added' = CountAfter(new_items_added, result)
              ELSE UNCHANGED <<store, posted, new_items_added>>
    /\ cit_idx' = cit_idx + 1
    /\ UNCHANGED <<pc, zotero_items, start, wiki_pages, url_idx, citations, references_bib,
                   list_failed, fetch_failed, seen, run, prev_clean, arg, ret>>

\* the citations of the page are done: on to the next wiki_url
PageDone ==
    /\ pc = "citations"
    /\ cit_idx > Len(citations)
    /\ url_idx' = url_idx + 1
    /\ pc' = "pages"
    /\ UNCHANGED <<store, zotero_items, start, wiki_pages, citations, cit_idx,
                   new_items_added, references_bib, list_failed, fetch_failed, seen,
                   judged, posted, run, prev_clean, arg, ret>>

\* after the last page: the export, when something was added
Finish ==
    /\ pc = "pages"
    /\ url_idx > Len(wiki_pages)
    /\ IF new_items_added > 0
       THEN \E listed \in BOOLEAN, written \in BOOLEAN :
               LET updated_items == IF listed THEN AllPages(store, 0) ELSE <<>>
               IN  references_bib' = IF written THEN Len(updated_items) ELSE references_bib
       ELSE UNCHANGED references_bib
    /\ pc' = "done"
    /\ UNCHANGED <<store, zotero_items, start, wiki_pages, url_idx, citations, cit_idx,
                   new_items_added, list_failed, fetch_failed, seen, judged, posted, run,
                   prev_clean, arg, ret>>

\* the run that just ended had credentials and no failed listing, fetch or append
RunClean ==
    /\ pc = "done"
    /\ ~list_failed
    /\ ~fetch_failed
    /\ \A i \in 1..Len(posted) : posted[i].ok

\* the job is started again over the same pages and the library as it now is
Rerun ==
    /\ pc \in {"done", "no_credentials"}
    /\ run < MaxRuns
    /\ run' = run + 1
    /\ prev_clean' = RunClean
    /\ pc' = "main"
    /\ zotero_items' = <<>> /\ start' = 0 /\ url_idx' = 0
    /\ citations' = <<>> /\ cit_idx' = 0 /\ new_items_added' = 0
    /\ list_failed' = FALSE /\ fetch_failed' = FALSE
    /\ seen' = <<>> /\ judged' = <<>> /\ posted' = <<>>
    /\ references_bib' = -1
    /\ UNCHANGED <<store, wiki_pages, arg, ret>>

Next == Main \/ ListPage \/ FetchPage \/ CheckCitation \/ PageDone \/ Finish \/ Rerun

Spec == Init /\ [][Next]_vars

-----------------------------------------------------------------------------
(* Claims about a run of main() *)

CitationsOf(log) == [i \in 1..Len(log) |-> log[i].citation]

JudgedNew == SelectSeq(judged, LAMBDA j : j.new)

\* C1: after a run in which the listing, every fetch and every append succeeded,
\* a second run over the same pages and the library as the first run left it
\* (listed without failure) appends nothing
Idempotent ==
    (run >= 2 /\ prev_clean /\ ~list_failed) => posted = <<>>

\* C2: when a request of the snapshot listing fails, the run aborts: no page is
\* scanned, no novelty decision is made and no record is appended
ListingFailureFatal ==
    (pc = "done" /\ list_failed) => (seen = <<>> /\ judged = <<>> /\ posted = <<>>)

\* C3: a failed create_item is not counted and stops nothing: the counter is the
\* number of successful requests, every candidate judged new is submitted exactly
\* once, and at the end of the run every page was visited and every citation
\* extracted was evaluated
AppendFailureIsolated ==
    /\ new_items_added = Cardinality({i \in 1..Len(posted) : posted[i].ok})
    /\ CitationsOf(posted) = CitationsOf(JudgedNew)
    /\ pc = "done" => (url_idx = Len(wiki_pages) + 1 /\ CitationsOf(judged) = seen)

AppendFailureIsolatedWitness ==
    /\ pc = "done"
    /\ Len(posted) = 3
    /\ ~posted[1].ok /\ posted[2].ok /\ posted[3].ok
    /\ posted[2].citation.source_url = posted[1].citation.source_url
    /\ posted[3].citation.source_url # posted[1].citation.source_url
    /\ new_items_added = 2

\* C4: every novelty decision of a run is the decision against the snapshot of
\* the run, which no append changes; candidates with the same text that the
\* snapshot does not hold are all judged new and all submitted
SnapshotDecisions ==
    /\ [][(pc \in {"pages", "citations"}) => (zotero_items' = zotero_items)]_vars
    /\ [](pc \in {"pages", "citations", "done"} =>
            /\ \A i \in 1..Len(judged) :
                  judged[i].new = ~citation_exists_in_zotero(judged[i].citation, zotero_items)
            /\ CitationsOf(posted) = CitationsOf(JudgedNew))

SnapshotDecisionsWitness ==
    /\ pc = "done"
    /\ zotero_items = <<>>
    /\ Len(posted) = 2
    /\ posted[1].citation = posted[2].citation
    /\ posted[1].ok /\ posted[2].ok
    /\ Len(store) = 2

====
